---- MODULE Spec2Model ----
(***************************************************************************)
(* A model of package tattle (src/tattle.go): Tattlers that latch the      *)
(* first error they are given, count later different errors, and log the   *)
(* latched error once.                                                     *)
(*                                                                         *)
(* Strings are sequences of tokens, so that formatting (fmt.Sprintf,       *)
(* fmt.Errorf), filepath.Base and Tattler.String are computed rather than  *)
(* assumed.  Tales live on a heap of cells addressed by talep, as in the   *)
(* Go code, where a Tattler is a pointer to a tale.                        *)
(***************************************************************************)
EXTENDS Integers, Sequences, FiniteSets, TLC

\* ------------------------------------------------------------------------
\* Bounds of the model.
\* ------------------------------------------------------------------------
MaxMissed == 2      \* cap on tale.missed
MaxSink == 2        \* cap on the number of writes to the log
MaxMissedTwo == 1   \* cap on tale.missed in the program with two Tattlers
MaxSinkTwo == 2     \* cap on the writes to the log in the program with two Tattlers
MaxDepth == 2       \* deepest call stack above Latch/Latchf
MaxMissedSmall == 1 \* cap on tale.missed in the small programs
MaxSinkSmall == 1   \* cap on the writes to the log in the small programs
NumGors == 3        \* goroutines that call a method of the one record

\* ------------------------------------------------------------------------
\* Values.
\* ------------------------------------------------------------------------
Tats == {"a", "b"}                 \* the Tattler variables of the program
NilPtr == 0                        \* a nil *tale
Addrs == 1..Cardinality(Tats)      \* heap cells that can hold a tale

\* The nil error, and the errors a caller holds before the run (values such
\* as io.EOF): an error has an identity (id) and a message.
NilErr == [id |-> 0, msg |-> <<>>]
CallerErrs == {[id |-> 1, msg |-> <<"boom">>]}
\* Errors a caller holds whose type cannot be compared with == (a slice type
\* with an Error method): comparing two of them panics.
SliceErrs == {[id |-> 2, msg |-> <<"multi">>]}
FirstNewErr == Cardinality(CallerErrs) + Cardinality(SliceErrs) + 1

\* A stack frame as runtime.Frame gives it: file path, line, function.
ZeroFrame == [file |-> <<>>, line |-> 0, function |-> ""]
AppFrame(n) == [file |-> <<"app", "rec.go">>, line |-> n, function |-> "app.fn"]
\* The call stack of a caller d functions deep, innermost frame first.
CallerStack(d) == [i \in 1..d |-> AppFrame(d - i + 1)]
CallerStacks == {CallerStack(d) : d \in 1..MaxDepth}
\* The frames of the package itself that are on the stack inside fullLatch.
FrameCallers == [file |-> <<"runtime", "extern.go">>, line |-> 0, function |-> "runtime.Callers"]
FrameFullLatch == [file |-> <<"tattle", "tattle.go">>, line |-> 122, function |-> "tattle.fullLatch"]
FrameLatch == [file |-> <<"tattle", "tattle.go">>, line |-> 162, function |-> "tattle.Latch"]
FrameLatchf == [file |-> <<"tattle", "tattle.go">>, line |-> 175, function |-> "tattle.Latchf"]

\* A zero tale, as new(tale) returns it.
ZeroTale == [latched |-> NilErr, frames |-> <<>>, logged |-> FALSE, missed |-> 0]

Min(x, y) == IF x <= y THEN x ELSE y

\* ------------------------------------------------------------------------
\* State.
\* ------------------------------------------------------------------------
VARIABLES
    talep,        \* Tattler.talep of each Tattler: NilPtr or the address of its tale
    heap,         \* the tales: heap[p] is the tale at address p
    callFrames,   \* the package variable callFrames
    sink,         \* the log: the text of the latest write log.Printf made to it
    last,         \* the last call: operation, receiver, arguments, result
    offered,      \* history: first non-nil error offered to each Tattler since it was
                  \* last reset
    detail,       \* history, per tale: writes it caused, different errors offered to it
                  \* (a tale made by Import carries the history of the tale it copies),
                  \* paired: Import made one of the two tales from the other and the
                  \* Tattlers have not been offered an error or reset since
    logWrites,    \* the log: number of writes the Log/Logf calls on each Tattler made
    goroutines,   \* where each goroutine is in the function it runs, with the
                  \* calls it has deferred and the locals of that function
    mux,          \* the mutex of the record: NoGor, or the goroutine that holds it
    stale         \* values of callFrames that were overwritten while a fullLatch
                  \* was running without synchronisation

vars == <<talep, heap, callFrames, sink, last, offered, detail, logWrites, goroutines, mux, stale>>

\* the goroutines of the program, and no goroutine
Gors == 1..NumGors
NoGor == 0
\* a goroutine that has not started its function: no deferred calls, no
\* locals (the stack it latches on, the error it offers)
Idle == [at |-> "idle", defers |-> <<>>, stk |-> <<>>, e |-> NilErr]
\* a program with one goroutine: no goroutine of Gors runs and the mutex is
\* not used
Sequential == UNCHANGED <<goroutines, mux, stale>>

\* the log before anything is written: a write is a prefix and a text
NoWrite == [prefix |-> <<>>, body |-> <<>>]

ZeroDetail == [writes |-> 0, offers |-> 0, paired |-> FALSE]
\* the history d once a Tattler is offered an error or reset
Apart(d) == [p \in DOMAIN d |-> [d[p] EXCEPT !.paired = FALSE]]

\* The record of a call; the fields a call does not use keep these values.
\* stk: the call stack Latch or Latchf was called on, innermost first.
\* retB, retE, retS, retN: the result, by type; no operation of the package
\* returns a number, so retN keeps its zero value.
\* full: the call went on into fullLogf (it formatted the prefix and
\* rendered String()).  panic: the call ended in a run-time panic.
NoCall == [op |-> "none", tat |-> "", err |-> NilErr, other |-> "",
           s |-> <<>>, v |-> <<>>, n |-> 0, stk |-> <<>>,
           retB |-> FALSE, retE |-> NilErr, retS |-> <<>>, retN |-> 0, full |-> FALSE,
           panic |-> FALSE]

Init ==
    /\ talep = [t \in Tats |-> NilPtr]
    /\ heap = [p \in Addrs |-> ZeroTale]
    /\ callFrames = 3
    /\ sink = NoWrite
    /\ last = NoCall
    /\ offered = [t \in Tats |-> NilErr]
    /\ detail = [p \in Addrs |-> ZeroDetail]
    /\ logWrites = [t \in Tats |-> 0]
    /\ goroutines = [g \in Gors |-> Idle]
    /\ mux = NoGor
    /\ stale = {}

\* ------------------------------------------------------------------------
\* Library functions the package calls.
\* ------------------------------------------------------------------------
\* fmt.Sprintf on a format of tokens: the verb "%v" takes the next argument,
\* a verb without argument prints as missing, arguments left over are
\* reported at the end.
RECURSIVE Sprintf(_, _)
Sprintf(s, v) ==
    IF s = <<>>
    THEN IF v = <<>> THEN <<>> ELSE <<"%!(EXTRA)">>
    ELSE IF Head(s) = "%v"
         THEN IF v = <<>>
              THEN <<"%!v(MISSING)">> \o Sprintf(Tail(s), v)
              ELSE <<Head(v)>> \o Sprintf(Tail(s), Tail(v))
         ELSE <<Head(s)>> \o Sprintf(Tail(s), v)

\* error identities still held somewhere: a new error is a new pointer,
\* different from all of them
LiveErrIds ==
    {heap[p].latched.id : p \in Addrs} \cup {offered[t].id : t \in Tats}
        \cup {e.id : e \in CallerErrs \cup SliceErrs} \cup {NilErr.id}
NewErrId == CHOOSE i \in FirstNewErr..(FirstNewErr + Cardinality(LiveErrIds)) :
                /\ i \notin LiveErrIds
                /\ \A j \in FirstNewErr..(i - 1) : j \in LiveErrIds
\* fmt.Errorf: a new error value whose message is the formatted text
Errorf(s, v) == [id |-> NewErrId, msg |-> Sprintf(s, v)]

\* e1 == e2 on error interfaces holding pointers: the same error value
SameErr(e1, e2) == e1.id = e2.id
\* e1 == e2 panics when both hold values of the same type and that type
\* cannot be compared
Panics(e1, e2) == e1 \in SliceErrs /\ e2 \in SliceErrs

\* runtime.Callers(skip, pc) with len(pc) = n on the stack stk (innermost
\* first, stk[1] being the frame of Callers itself): the frames it fills in.
Callers(skip, n, stk) ==
    LET rest == IF skip >= Len(stk) THEN <<>> ELSE SubSeq(stk, skip + 1, Len(stk))
    IN  SubSeq(rest, 1, Min(n, Len(rest)))
\* the loop over runtime.CallersFrames(pc): Next is called once even when
\* pc is empty, and then yields a zero Frame
CallersFrames(pc) == IF pc = <<>> THEN <<ZeroFrame>> ELSE pc

\* filepath.Base
Base(path) == IF path = <<>> THEN "." ELSE path[Len(path)]

\* new(tale): a cell no Tattler points to
NewTale == CHOOSE p \in Addrs :
               /\ \A t \in Tats : talep[t] # p
               /\ \A q \in 1..(p - 1) : \E t \in Tats : talep[t] = q

\* ------------------------------------------------------------------------
\* Queries.
\* ------------------------------------------------------------------------
Le(tat) == IF talep[tat] = NilPtr THEN NilErr ELSE heap[talep[tat]].latched
Led(tat) == talep[tat] # NilPtr
Ok(tat) == talep[tat] = NilPtr

\* One line of the text String returns.
Line(kind, text, f, n) ==
    [kind |-> kind, text |-> text, file |-> Base(f.file), line |-> f.line,
     function |-> f.function, n |-> n]
\* String with a bug: the line of missed errors is printed when missed is 0 too
StringAlwaysCounts(tat) ==
    IF talep[tat] # NilPtr /\ heap[talep[tat]].latched # NilErr
    THEN LET t == heap[talep[tat]]
         IN  <<Line("error", t.latched.msg, ZeroFrame, 0)>>
             \o [i \in 1..Len(t.frames) |->
                    Line(IF i = 1 THEN " Latched at:" ELSE " Called From:",
                         <<>>, t.frames[i], 0)]
             \o <<Line(" post-latch errors", <<>>, ZeroFrame, t.missed)>>
    ELSE <<>>

String(tat) ==
    IF talep[tat] # NilPtr /\ heap[talep[tat]].latched # NilErr
    THEN LET t == heap[talep[tat]]
         IN  <<Line("error", t.latched.msg, ZeroFrame, 0)>>
             \o (IF Len(t.frames) > 0
                 THEN [i \in 1..Len(t.frames) |->
                          Line(IF i = 1 THEN " Latched at:" ELSE " Called From:",
                               <<>>, t.frames[i], 0)]
                 ELSE <<>>)
             \o (IF t.missed # 0
                 THEN <<Line(" post-latch errors", <<>>, ZeroFrame, t.missed)>>
                 ELSE <<>>)
    ELSE <<>>

\* fullLatch with a bug: the whole stack is captured, callFrames only
\* switches the capture on
fullLatchAllFrames(tat, b, e, stk) ==
    IF e # NilErr
    THEN IF talep[tat] = NilPtr
         THEN /\ talep' = [talep EXCEPT ![tat] = NewTale]
              /\ heap' = [heap EXCEPT ![NewTale] =
                             [ZeroTale EXCEPT
                                 !.latched = e,
                                 !.frames = IF callFrames > 0
                                            THEN CallersFrames(Callers(b + 2, 100,
                                                                       <<FrameCallers>> \o stk))
                                            ELSE <<>>]]
         ELSE /\ IF ~SameErr(e, heap[talep[tat]].latched)
                 THEN heap' = [heap EXCEPT ![talep[tat]].missed = @ + 1]
                 ELSE UNCHANGED heap
              /\ UNCHANGED talep
    ELSE UNCHANGED <<talep, heap>>

\* fullLatch with a bug: one frame too few is skipped, the first frame kept
\* is the one of Latch or Latchf
fullLatchSkipsLess(tat, b, e, stk) ==
    IF e # NilErr
    THEN IF talep[tat] = NilPtr
         THEN /\ talep' = [talep EXCEPT ![tat] = NewTale]
              /\ heap' = [heap EXCEPT ![NewTale] =
                             [ZeroTale EXCEPT
                                 !.latched = e,
                                 !.frames = IF callFrames > 0
                                            THEN CallersFrames(Callers(b + 1, callFrames,
                                                                       <<FrameCallers>> \o stk))
                                            ELSE <<>>]]
         ELSE /\ IF ~SameErr(e, heap[talep[tat]].latched)
                 THEN heap' = [heap EXCEPT ![talep[tat]].missed = @ + 1]
                 ELSE UNCHANGED heap
              /\ UNCHANGED talep
    ELSE UNCHANGED <<talep, heap>>

\* fullLatch with a bug: the frames are captured whatever callFrames is
fullLatchAlwaysCaptures(tat, b, e, stk) ==
    IF e # NilErr
    THEN IF talep[tat] = NilPtr
         THEN /\ talep' = [talep EXCEPT ![tat] = NewTale]
              /\ heap' = [heap EXCEPT ![NewTale] =
                             [ZeroTale EXCEPT
                                 !.latched = e,
                                 !.frames = CallersFrames(Callers(b + 2, callFrames,
                                                                  <<FrameCallers>> \o stk))]]
         ELSE /\ IF ~SameErr(e, heap[talep[tat]].latched)
                 THEN heap' = [heap EXCEPT ![talep[tat]].missed = @ + 1]
                 ELSE UNCHANGED heap
              /\ UNCHANGED talep
    ELSE UNCHANGED <<talep, heap>>

\* fullLatch with a bug: errors are compared by their message, and the
\* comparison is inverted, so that offering the latched error is counted
fullLatchCountsSame(tat, b, e, stk) ==
    IF e # NilErr
    THEN IF talep[tat] = NilPtr
         THEN LET fr == IF callFrames > 0
                        THEN CallersFrames(Callers(b + 2, callFrames, <<FrameCallers>> \o stk))
                        ELSE <<>>
              IN  /\ talep' = [talep EXCEPT ![tat] = NewTale]
                  /\ heap' = [heap EXCEPT ![NewTale] =
                                 [ZeroTale EXCEPT !.latched = e, !.frames = fr]]
         ELSE /\ IF SameErr(e, heap[talep[tat]].latched)
                 THEN heap' = [heap EXCEPT ![talep[tat]].missed = @ + 1]
                 ELSE UNCHANGED heap
              /\ UNCHANGED talep
    ELSE UNCHANGED <<talep, heap>>

\* fullLatch with a bug: a missed error captures the frames again
fullLatchRecaptures(tat, b, e, stk) ==
    LET fr == IF callFrames > 0
              THEN CallersFrames(Callers(b + 2, callFrames, <<FrameCallers>> \o stk))
              ELSE <<>>
    IN  IF e # NilErr
        THEN IF talep[tat] = NilPtr
             THEN /\ talep' = [talep EXCEPT ![tat] = NewTale]
                  /\ heap' = [heap EXCEPT ![NewTale] =
                                 [ZeroTale EXCEPT !.latched = e, !.frames = fr]]
             ELSE /\ IF ~SameErr(e, heap[talep[tat]].latched)
                     THEN heap' = [heap EXCEPT ![talep[tat]].missed = @ + 1,
                                               ![talep[tat]].frames = fr]
                     ELSE UNCHANGED heap
                  /\ UNCHANGED talep
        ELSE UNCHANGED <<talep, heap>>

\* ------------------------------------------------------------------------
\* Operations.
\* ------------------------------------------------------------------------
\* fullLatch with a bug: a later different error replaces the latched one
fullLatchLastWins(tat, b, e, stk) ==
    IF e # NilErr
    THEN IF talep[tat] = NilPtr
         THEN /\ talep' = [talep EXCEPT ![tat] = NewTale]
              /\ heap' = [heap EXCEPT ![NewTale] = [ZeroTale EXCEPT !.latched = e]]
         ELSE /\ IF ~SameErr(e, heap[talep[tat]].latched)
                 THEN heap' = [heap EXCEPT ![talep[tat]].missed = @ + 1,
                                           ![talep[tat]].latched = e]
                 ELSE UNCHANGED heap
              /\ UNCHANGED talep
    ELSE UNCHANGED <<talep, heap>>

\* fullLatch with a bug: every non-nil offer to a latched Tattler is counted,
\* the latched error itself included
fullLatchCountsAll(tat, b, e, stk) ==
    IF e # NilErr
    THEN IF talep[tat] = NilPtr
         THEN /\ talep' = [talep EXCEPT ![tat] = NewTale]
              /\ heap' = [heap EXCEPT ![NewTale] = [ZeroTale EXCEPT !.latched = e]]
         ELSE /\ heap' = [heap EXCEPT ![talep[tat]].missed = @ + 1]
              /\ UNCHANGED talep
    ELSE UNCHANGED <<talep, heap>>

\* fullLatch with a bug: an error is logged once for all Tattlers, a tale
\* made for an error that another Tattler has logged starts as logged
fullLatchOncePerError(tat, b, e, stk) ==
    IF e # NilErr
    THEN IF talep[tat] = NilPtr
         THEN LET fr == IF callFrames > 0
                        THEN CallersFrames(Callers(b + 2, callFrames, <<FrameCallers>> \o stk))
                        ELSE <<>>
                  lg == \E t \in Tats : /\ talep[t] # NilPtr
                                        /\ SameErr(heap[talep[t]].latched, e)
                                        /\ heap[talep[t]].logged
              IN  /\ talep' = [talep EXCEPT ![tat] = NewTale]
                  /\ heap' = [heap EXCEPT ![NewTale] =
                                 [ZeroTale EXCEPT !.latched = e, !.frames = fr, !.logged = lg]]
         ELSE /\ IF ~SameErr(e, heap[talep[tat]].latched)
                 THEN heap' = [heap EXCEPT ![talep[tat]].missed = @ + 1]
                 ELSE UNCHANGED heap
              /\ UNCHANGED talep
    ELSE UNCHANGED <<talep, heap>>

\* fullLatch with a bug: two errors are the same when their messages are
fullLatchByMessage(tat, b, e, stk) ==
    IF e # NilErr
    THEN IF talep[tat] = NilPtr
         THEN LET fr == IF callFrames > 0
                        THEN CallersFrames(Callers(b + 2, callFrames, <<FrameCallers>> \o stk))
                        ELSE <<>>
              IN  /\ talep' = [talep EXCEPT ![tat] = NewTale]
                  /\ heap' = [heap EXCEPT ![NewTale] =
                                 [ZeroTale EXCEPT !.latched = e, !.frames = fr]]
         ELSE /\ IF e.msg # heap[talep[tat]].latched.msg
                 THEN heap' = [heap EXCEPT ![talep[tat]].missed = @ + 1]
                 ELSE UNCHANGED heap
              /\ UNCHANGED talep
    ELSE UNCHANGED <<talep, heap>>

\* fullLatch with a bug: the latching offer is counted as missed too
fullLatchCountsFirst(tat, b, e, stk) ==
    IF e # NilErr
    THEN IF talep[tat] = NilPtr
         THEN /\ talep' = [talep EXCEPT ![tat] = NewTale]
              /\ heap' = [heap EXCEPT ![NewTale] =
                             [ZeroTale EXCEPT !.latched = e, !.missed = 1]]
         ELSE /\ IF ~SameErr(e, heap[talep[tat]].latched)
                 THEN heap' = [heap EXCEPT ![talep[tat]].missed = @ + 1]
                 ELSE UNCHANGED heap
              /\ UNCHANGED talep
    ELSE UNCHANGED <<talep, heap>>

\* fullLatch(b, e) on the stack stk (stk[1] is the frame of fullLatch); it
\* ends at the comparison when that panics
fullLatch(tat, b, e, stk) ==
    IF e # NilErr
    THEN IF talep[tat] = NilPtr
         THEN LET tp == NewTale
                  fr == IF callFrames > 0
                        THEN CallersFrames(Callers(b + 2, callFrames, <<FrameCallers>> \o stk))
                        ELSE <<>>
              IN  /\ talep' = [talep EXCEPT ![tat] = tp]
                  /\ heap' = [heap EXCEPT ![tp] = [ZeroTale EXCEPT !.latched = e, !.frames = fr]]
         ELSE /\ IF ~Panics(e, heap[talep[tat]].latched)
                    /\ ~SameErr(e, heap[talep[tat]].latched)
                 THEN heap' = [heap EXCEPT ![talep[tat]].missed = @ + 1]
                 ELSE UNCHANGED heap
              /\ UNCHANGED talep
    ELSE UNCHANGED <<talep, heap>>

\* History kept beside an offer of e to tat (what a caller of Latch or
\* Latchf can see: the Tattler was latched and e is not the error Le returns).
Offer(tat, e) ==
    /\ offered' = IF offered[tat] = NilErr /\ e # NilErr
                  THEN [offered EXCEPT ![tat] = e] ELSE offered
    /\ detail' = Apart(IF e # NilErr /\ Led(tat) /\ e.id # Le(tat).id
                       THEN [detail EXCEPT ![talep[tat]].offers = @ + 1] ELSE detail)
    /\ UNCHANGED logWrites

\* Latch with a bug: no nil check, a nil offer to a latched Tattler is counted
LatchNoNilCheck(tat, e, stk) ==
    /\ IF talep[tat] = NilPtr
       THEN fullLatch(tat, 1, e, <<FrameFullLatch, FrameLatch>> \o stk)
       ELSE /\ IF ~SameErr(e, heap[talep[tat]].latched)
               THEN heap' = [heap EXCEPT ![talep[tat]].missed = @ + 1]
               ELSE UNCHANGED heap
            /\ UNCHANGED talep
    /\ last' = [NoCall EXCEPT !.op = "Latch", !.tat = tat, !.err = e, !.stk = stk,
                              !.retB = (talep'[tat] # NilPtr)]
    /\ Offer(tat, e)
    /\ UNCHANGED <<callFrames, sink>>

Latch(tat, e, stk) ==
    /\ IF e # NilErr
       THEN /\ fullLatch(tat, 1, e, <<FrameFullLatch, FrameLatch>> \o stk)
            /\ last' = IF Led(tat) /\ Panics(e, Le(tat))
                       THEN [NoCall EXCEPT !.op = "Latch", !.tat = tat, !.err = e,
                                           !.stk = stk, !.panic = TRUE]
                       ELSE [NoCall EXCEPT !.op = "Latch", !.tat = tat, !.err = e,
                                           !.stk = stk, !.retB = (talep'[tat] # NilPtr)]
       ELSE /\ UNCHANGED <<talep, heap>>
            /\ last' = [NoCall EXCEPT !.op = "Latch", !.tat = tat, !.err = e, !.stk = stk,
                                      !.retB = FALSE]
    /\ Offer(tat, e)
    /\ UNCHANGED <<callFrames, sink>>

\* the calls of Latchf and Logf the program makes: format and arguments
LatchfCalls == {<< <<"bad ", "%v">>, <<"x">> >>}
LogfCalls == {<< <<>>, <<>> >>, << <<"rec ", "%v", ":">>, <<"15">> >>}
\* the arguments the program gives to SetFrames (a uint32)
FrameArgs == {0, 101}

\* Latchf with a bug: it returns the error it made, not the latched one
LatchfReturnsNew(tat, s, v, stk) ==
    LET e == Errorf(s, v)
    IN  /\ fullLatch(tat, 1, e, <<FrameFullLatch, FrameLatchf>> \o stk)
        /\ last' = [NoCall EXCEPT !.op = "Latchf", !.tat = tat, !.err = e, !.s = s, !.v = v,
                                  !.stk = stk,
                                  !.retE = e]
        /\ Offer(tat, e)
        /\ UNCHANGED <<callFrames, sink>>

Latchf(tat, s, v, stk) ==
    LET e == Errorf(s, v)
    IN  /\ fullLatch(tat, 1, e, <<FrameFullLatch, FrameLatchf>> \o stk)
        /\ last' = [NoCall EXCEPT !.op = "Latchf", !.tat = tat, !.err = e, !.s = s, !.v = v,
                                  !.stk = stk,
                                  !.retE = heap'[talep'[tat]].latched]
        /\ Offer(tat, e)
        /\ UNCHANGED <<callFrames, sink>>

\* tales no Tattler points to any more are gone
Collect(tp, hp, zero) == [p \in Addrs |-> IF \E t \in Tats : tp[t] = p THEN hp[p] ELSE zero]

\* Import with a bug: the other is not checked, a clean other gives the
\* receiver an empty tale
ImportFromClean(tat, itp) ==
    /\ IF talep[tat] = NilPtr
       THEN /\ talep' = [talep EXCEPT ![tat] = NewTale]
            /\ heap' = [heap EXCEPT ![NewTale] =
                           IF talep[itp] = NilPtr THEN ZeroTale ELSE heap[talep[itp]]]
            /\ detail' = [detail EXCEPT ![NewTale] =
                             IF talep[itp] = NilPtr THEN ZeroDetail ELSE detail[talep[itp]]]
            /\ offered' = [offered EXCEPT ![tat] = offered[itp]]
       ELSE UNCHANGED <<talep, heap, detail, offered>>
    /\ last' = [NoCall EXCEPT !.op = "Import", !.tat = tat, !.other = itp,
                              !.retB = (talep'[tat] # NilPtr)]
    /\ UNCHANGED <<callFrames, sink, logWrites>>

\* Import with a bug: only the error and the frames are copied, missed and
\* logged start from zero
ImportErrorOnly(tat, itp) ==
    /\ IF talep[itp] # NilPtr /\ talep[tat] = NilPtr
       THEN /\ talep' = [talep EXCEPT ![tat] = NewTale]
            /\ heap' = [heap EXCEPT ![NewTale] =
                           [ZeroTale EXCEPT !.latched = heap[talep[itp]].latched,
                                            !.frames = heap[talep[itp]].frames]]
            /\ detail' = [detail EXCEPT ![NewTale] = [detail[talep[itp]] EXCEPT !.paired = TRUE],
                                        ![talep[itp]].paired = TRUE]
            /\ offered' = [offered EXCEPT ![tat] = offered[itp]]
       ELSE UNCHANGED <<talep, heap, detail, offered>>
    /\ last' = [NoCall EXCEPT !.op = "Import", !.tat = tat, !.other = itp,
                              !.retB = (talep'[tat] # NilPtr)]
    /\ UNCHANGED <<callFrames, sink, logWrites>>

\* Import with a bug: the receiver is given the other's tale itself, not a
\* copy of it
ImportShares(tat, itp) ==
    /\ IF talep[itp] # NilPtr /\ talep[tat] = NilPtr
       THEN /\ talep' = [talep EXCEPT ![tat] = talep[itp]]
            /\ offered' = [offered EXCEPT ![tat] = offered[itp]]
            /\ UNCHANGED <<heap, detail>>
       ELSE UNCHANGED <<talep, heap, detail, offered>>
    /\ last' = [NoCall EXCEPT !.op = "Import", !.tat = tat, !.other = itp,
                              !.retB = (talep'[tat] # NilPtr)]
    /\ UNCHANGED <<callFrames, sink, logWrites>>

\* Import with a bug: it returns whether it copied, not whether the
\* receiver is latched
ImportReturnsCopied(tat, itp) ==
    /\ IF talep[itp] # NilPtr /\ talep[tat] = NilPtr
       THEN /\ talep' = [talep EXCEPT ![tat] = NewTale]
            /\ heap' = [heap EXCEPT ![NewTale] = heap[talep[itp]]]
            /\ detail' = [detail EXCEPT ![NewTale] = [detail[talep[itp]] EXCEPT !.paired = TRUE],
                                        ![talep[itp]].paired = TRUE]
            /\ offered' = [offered EXCEPT ![tat] = offered[itp]]
       ELSE UNCHANGED <<talep, heap, detail, offered>>
    /\ last' = [NoCall EXCEPT !.op = "Import", !.tat = tat, !.other = itp,
                              !.retB = (talep[itp] # NilPtr /\ talep[tat] = NilPtr)]
    /\ UNCHANGED <<callFrames, sink, logWrites>>

\* Import with a bug: it does not check that the receiver is clean
ImportOverwrites(tat, itp) ==
    /\ IF talep[itp] # NilPtr
       THEN IF talep[tat] = NilPtr
            THEN /\ talep' = [talep EXCEPT ![tat] = NewTale]
                 /\ heap' = [heap EXCEPT ![NewTale] = heap[talep[itp]]]
                 /\ detail' = [detail EXCEPT ![NewTale] = [detail[talep[itp]] EXCEPT !.paired = TRUE],
                                             ![talep[itp]].paired = TRUE]
                 /\ offered' = [offered EXCEPT ![tat] = offered[itp]]
            ELSE /\ heap' = [heap EXCEPT ![talep[tat]] = heap[talep[itp]]]
                 /\ UNCHANGED <<talep, detail, offered>>
       ELSE UNCHANGED <<talep, heap, detail, offered>>
    /\ last' = [NoCall EXCEPT !.op = "Import", !.tat = tat, !.other = itp,
                              !.retB = (talep'[tat] # NilPtr)]
    /\ UNCHANGED <<callFrames, sink, logWrites>>

Import(tat, itp) ==
    /\ IF talep[itp] # NilPtr /\ talep[tat] = NilPtr
       THEN LET tp == NewTale
            IN  /\ talep' = [talep EXCEPT ![tat] = tp]
                /\ heap' = [heap EXCEPT ![tp] = heap[talep[itp]]]
                /\ detail' = [detail EXCEPT ![tp] = [detail[talep[itp]] EXCEPT !.paired = TRUE],
                                            ![talep[itp]].paired = TRUE]
                /\ offered' = [offered EXCEPT ![tat] = offered[itp]]
       ELSE UNCHANGED <<talep, heap, detail, offered>>
    /\ last' = [NoCall EXCEPT !.op = "Import", !.tat = tat, !.other = itp,
                              !.retB = (talep'[tat] # NilPtr)]
    /\ UNCHANGED <<callFrames, sink, logWrites>>

\* Reset with a bug: the tale is kept for the next latch, only its counts
\* are cleared
ResetKeepsTale(tat) ==
    /\ IF talep[tat] = NilPtr
       THEN UNCHANGED heap
       ELSE heap' = [heap EXCEPT ![talep[tat]].logged = FALSE, ![talep[tat]].missed = 0]
    /\ detail' = Apart(IF talep[tat] = NilPtr THEN detail
                       ELSE [detail EXCEPT ![talep[tat]] = ZeroDetail])
    /\ last' = [NoCall EXCEPT !.op = "Reset", !.tat = tat]
    /\ UNCHANGED <<talep, offered, callFrames, sink, logWrites>>

\* Import(nil): itp.talep is read through a nil pointer, which panics
ImportNil(tat) ==
    /\ last' = [NoCall EXCEPT !.op = "Import", !.tat = tat, !.panic = TRUE]
    /\ UNCHANGED <<talep, heap, callFrames, sink, offered, detail, logWrites>>

Reset(tat) ==
    /\ talep' = [talep EXCEPT ![tat] = NilPtr]
    /\ heap' = Collect(talep', heap, ZeroTale)
    /\ detail' = Apart(Collect(talep', detail, ZeroDetail))
    /\ last' = [NoCall EXCEPT !.op = "Reset", !.tat = tat]
    /\ offered' = [offered EXCEPT ![tat] = NilErr]
    /\ UNCHANGED <<callFrames, sink, logWrites>>

\* dst = src, the assignment of a Tattler value: the struct is copied, that
\* is its one field talep, so dst points to the tale of src
Assign(dst, src) ==
    /\ talep' = [talep EXCEPT ![dst] = talep[src]]
    /\ heap' = Collect(talep', heap, ZeroTale)
    /\ detail' = Apart(Collect(talep', detail, ZeroDetail))
    /\ offered' = [offered EXCEPT ![dst] = offered[src]]
    /\ last' = [NoCall EXCEPT !.op = "Assign", !.tat = dst, !.other = src]
    /\ UNCHANGED <<callFrames, sink, logWrites>>

\* fullLogf with a bug: the prefix is left out of the write
fullLogfNoPrefix(tat, s, v) ==
    /\ sink' = [prefix |-> <<>>, body |-> String(tat)]
    /\ heap' = [heap EXCEPT ![talep[tat]].logged = TRUE]

\* fullLogf with a bug: logged is not set
fullLogfNoFlag(tat, s, v) ==
    /\ sink' = [prefix |-> Sprintf(s, v), body |-> String(tat)]
    /\ UNCHANGED heap

\* fullLogf: format the prefix, write prefix and String() to the log, set logged
fullLogf(tat, s, v) ==
    LET prefix == Sprintf(s, v)
    IN  /\ sink' = [prefix |-> prefix, body |-> String(tat)]
        /\ heap' = [heap EXCEPT ![talep[tat]].logged = TRUE]

\* Logf with a bug: the logged flag is not looked at
LogfAlways(op, tat, s, v) ==
    IF talep[tat] # NilPtr
    THEN /\ fullLogf(tat, s, v)
         /\ last' = [NoCall EXCEPT !.op = op, !.tat = tat, !.s = s, !.v = v, !.full = TRUE]
         /\ detail' = [detail EXCEPT ![talep[tat]].writes = @ + 1]
         /\ logWrites' = [logWrites EXCEPT ![tat] = @ + 1]
         /\ UNCHANGED <<talep, callFrames, offered>>
    ELSE /\ last' = [NoCall EXCEPT !.op = op, !.tat = tat, !.s = s, !.v = v]
         /\ UNCHANGED <<talep, heap, callFrames, sink, offered, detail, logWrites>>

\* Logf with a bug: the prefix is formatted before the Tattler is looked at
LogfEager(op, tat, s, v) ==
    IF talep[tat] # NilPtr /\ ~heap[talep[tat]].logged
    THEN /\ fullLogf(tat, s, v)
         /\ last' = [NoCall EXCEPT !.op = op, !.tat = tat, !.s = s, !.v = v, !.full = TRUE]
         /\ detail' = [detail EXCEPT ![talep[tat]].writes = @ + 1]
         /\ logWrites' = [logWrites EXCEPT ![tat] = @ + 1]
         /\ UNCHANGED <<talep, callFrames, offered>>
    ELSE /\ last' = [NoCall EXCEPT !.op = op, !.tat = tat, !.s = s, !.v = v, !.full = TRUE]
         /\ UNCHANGED <<talep, heap, callFrames, sink, offered, detail, logWrites>>

\* Logf, called as op ("Logf", or "Log" for the call Log makes)
LogfAs(op, tat, s, v) ==
    LET t == talep[tat]
    IN  IF t # NilPtr /\ ~heap[t].logged
        THEN /\ fullLogf(tat, s, v)
             /\ last' = [NoCall EXCEPT !.op = op, !.tat = tat, !.s = s, !.v = v, !.full = TRUE]
             /\ detail' = [detail EXCEPT ![t].writes = @ + 1]
             /\ logWrites' = [logWrites EXCEPT ![tat] = @ + 1]
             /\ UNCHANGED <<talep, callFrames, offered>>
        ELSE /\ last' = [NoCall EXCEPT !.op = op, !.tat = tat, !.s = s, !.v = v]
             /\ UNCHANGED <<talep, heap, callFrames, sink, offered, detail, logWrites>>

\* Log with a bug: it gives Logf a prefix of its own
LogWithPrefix(tat) == LogfAs("Log", tat, <<"tattle: ">>, <<>>)

\* Logf with a bug: the tale is marked as logged but nothing is written
LogfSilent(tat, s, v) ==
    /\ IF talep[tat] # NilPtr
       THEN heap' = [heap EXCEPT ![talep[tat]].logged = TRUE]
       ELSE UNCHANGED heap
    /\ last' = [NoCall EXCEPT !.op = "Logf", !.tat = tat, !.s = s, !.v = v]
    /\ UNCHANGED <<talep, callFrames, sink, offered, detail, logWrites>>

Logf(tat, s, v) == LogfAs("Logf", tat, s, v)
Log(tat) == LogfAs("Log", tat, <<>>, <<>>)

\* SetFrames with a bug: the request is stored as it is
SetFramesNoClamp(f) ==
    /\ callFrames' = f
    /\ last' = [NoCall EXCEPT !.op = "SetFrames", !.n = f]
    /\ UNCHANGED <<talep, heap, sink, offered, detail, logWrites>>

SetFrames(f) ==
    /\ callFrames' = IF f > 100 THEN 100 ELSE f
    /\ last' = [NoCall EXCEPT !.op = "SetFrames", !.n = f]
    /\ UNCHANGED <<talep, heap, sink, offered, detail, logWrites>>

\* the calls that only read
Read(call) ==
    /\ last' = call
    /\ UNCHANGED <<talep, heap, callFrames, sink, offered, detail, logWrites>>
\* String with a bug: rendering the tale marks it as logged
CallStringLogs(tat) ==
    /\ last' = [NoCall EXCEPT !.op = "String", !.tat = tat, !.retS = String(tat)]
    /\ heap' = IF talep[tat] = NilPtr THEN heap
               ELSE [heap EXCEPT ![talep[tat]].logged = TRUE]
    /\ UNCHANGED <<talep, callFrames, sink, offered, detail, logWrites>>

CallLe(tat) == Read([NoCall EXCEPT !.op = "Le", !.tat = tat, !.retE = Le(tat)])
CallLed(tat) == Read([NoCall EXCEPT !.op = "Led", !.tat = tat, !.retB = Led(tat)])
CallOk(tat) == Read([NoCall EXCEPT !.op = "Ok", !.tat = tat, !.retB = Ok(tat)])
CallString(tat) == Read([NoCall EXCEPT !.op = "String", !.tat = tat, !.retS = String(tat)])

\* ------------------------------------------------------------------------
\* Programs.
\* ------------------------------------------------------------------------
\* the caps: no offer once missed has reached mm, no write once the
\* Tattlers have written mw times
MissedBelow(tat, mm) ==
    IF talep[tat] = NilPtr THEN TRUE ELSE heap[talep[tat]].missed < mm
WritesBelow(tat, mw) ==
    IF talep[tat] # NilPtr /\ ~heap[talep[tat]].logged
    THEN logWrites["a"] + logWrites["b"] < mw
    ELSE TRUE

\* the errors a caller can pass to Latch: nil, the errors errs it holds, and
\* what Le returns
Offerable(errs) == {NilErr} \cup errs \cup {Le(t) : t \in Tats}

\* The calls of a program that uses the Tattlers tats, holds the errors
\* errs, gives SetFrames the arguments fargs, latches on the call stacks
\* stks, and gives Latchf and Logf the formats and arguments latchfs and
\* logfs; mm and mw are the caps.
Calls(tats, errs, fargs, stks, latchfs, logfs, mm, mw) ==
    \/ \E tat \in tats, e \in Offerable(errs), stk \in stks :
          MissedBelow(tat, mm) /\ Latch(tat, e, stk) /\ Sequential
    \/ \E tat \in tats, c \in latchfs, stk \in stks :
          MissedBelow(tat, mm) /\ Latchf(tat, c[1], c[2], stk) /\ Sequential
    \/ \E tat \in tats, itp \in Tats : Import(tat, itp) /\ Sequential
    \/ \E tat \in tats : Reset(tat) /\ Sequential
    \/ \E tat \in tats : WritesBelow(tat, mw) /\ Log(tat) /\ Sequential
    \/ \E tat \in tats, c \in logfs :
          WritesBelow(tat, mw) /\ Logf(tat, c[1], c[2]) /\ Sequential
    \/ \E f \in fargs : SetFrames(f) /\ Sequential
    \/ \E tat \in tats : CallLe(tat) /\ Sequential
    \/ \E tat \in tats : CallLed(tat) /\ Sequential
    \/ \E tat \in tats : CallOk(tat) /\ Sequential
    \/ \E tat \in tats : CallString(tat) /\ Sequential

\* A program with one Tattler in use.
Next == Calls({"a"}, CallerErrs, FrameArgs, CallerStacks, LatchfCalls, LogfCalls,
              MaxMissed, MaxSink)
Spec == Init /\ [][Next]_vars

\* A program with two Tattlers, which import from each other and latch
\* each other's errors.
NextTwo == Calls(Tats, {}, {3}, {CallerStack(1)}, LatchfCalls,
                 {<< <<"rec ", "%v", ":">>, <<"15">> >>}, MaxMissedTwo, MaxSinkTwo)
SpecTwo == Init /\ [][NextTwo]_vars

\* A program with two Tattlers that also assigns one Tattler to the other.
NextCopy ==
    \/ Calls(Tats, {}, {3}, {CallerStack(1)}, LatchfCalls,
             {<< <<"rec ", "%v", ":">>, <<"15">> >>}, MaxMissedTwo, MaxSinkTwo)
    \/ \E dst, src \in Tats : dst # src /\ Assign(dst, src) /\ Sequential
SpecCopy == Init /\ [][NextCopy]_vars

\* the small frame counts a program gives to SetFrames
SmallFrameArgs == {1, 2}
\* A program with one Tattler that sets frame counts smaller than the depth
\* of its call stacks.
NextFrames == Calls({"a"}, CallerErrs, SmallFrameArgs, CallerStacks, LatchfCalls,
                    {<< <<>>, <<>> >>}, MaxMissedSmall, MaxSinkSmall)
SpecFrames == Init /\ [][NextFrames]_vars

\* A program with one Tattler that also latches errors of a type that
\* cannot be compared and gives Import a nil pointer.
NextPanic ==
    \/ Calls({"a"}, CallerErrs \cup SliceErrs, {3}, {CallerStack(1)}, LatchfCalls,
             {<< <<>>, <<>> >>}, MaxMissedSmall, MaxSinkSmall)
    \/ \E tat \in {"a"} : ImportNil(tat) /\ Sequential
SpecPanic == Init /\ [][NextPanic]_vars

\* The method Record.Check, the standard template: the arguments of the
\* deferred Logf, and the Latchf calls of its body.
CheckLogf == << <<"Record id ", "%v">>, <<"15">> >>
CheckLatchfs == {<< <<"name length ", "%v", " exceeds maximum ", "%v">>, <<"1001", "1000">> >>,
                 << <<"age ", "%v", " not within range 0-", "%v">>, <<"1001", "1000">> >>}
\* One step of a call of Check on the record that holds tat; last tells
\* where the call is.  The call starts when no call is running (the defer
\* statement only keeps the arguments of Logf), returns Le() at once if
\* Led(), otherwise runs the body, which fails with a Latchf or returns
\* Le(); the deferred Logf runs when the call returns.
Check(tat, stks) ==
    \/ last.op \in {"none", "Logf"} /\ CallLed(tat) /\ Sequential
    \/ last.op = "Led" /\ last.tat = tat /\ last.retB /\ CallLe(tat) /\ Sequential
    \/ /\ last.op = "Led" /\ last.tat = tat /\ ~last.retB
       /\ \E c \in CheckLatchfs, stk \in stks : Latchf(tat, c[1], c[2], stk)
       /\ Sequential
    \/ last.op = "Led" /\ last.tat = tat /\ ~last.retB /\ CallLe(tat) /\ Sequential
    \/ /\ last.op \in {"Le", "Latchf"} /\ last.tat = tat
       /\ Logf(tat, CheckLogf[1], CheckLogf[2])
       /\ Sequential
\* A program that calls Check on its two records, one call after the other.
NextCheck == \E tat \in Tats : Check(tat, CallerStacks)
SpecCheck == Init /\ [][NextCheck]_vars

\* The nested functions of ExampleTattler_Logf: level_1 is called from the
\* example and calls level_2.  Their call stacks, the arguments of the
\* Logf that level_2 defers and of the Latchf of its body (for two lengths
\* of the name).
StackLevel1 == CallerStack(2)
StackLevel2 == CallerStack(3)
Level2Logf == << <<"tr record ", "%v", ":">>, <<"15">> >>
Level2Latchfs == {<< <<"name size ", "%v", " exceeds max 1000">>, <<n>> >> :
                     n \in {"8192", "2048"}}
\* Le() called on the stack stk
CallLeOn(tat, stk) ==
    Read([NoCall EXCEPT !.op = "Le", !.tat = tat, !.retE = Le(tat), !.stk = stk])
\* One step of a call of level_1 on the record that holds tat; last tells
\* where the call is.  level_1 defers Log and returns Le() at once if Led();
\* otherwise it calls level_2, which defers Logf, latches with Latchf if its
\* check fails and returns Le(), its Logf running as it returns; level_1
\* gives the error level_2 returned to Latch (Logf has not changed what
\* Le() is), returns Le(), and its Log runs as it returns.
Level1(tat) ==
    \/ last.op \in {"none", "Log"} /\ CallLed(tat) /\ Sequential
    \/ /\ last.op = "Led" /\ last.tat = tat /\ last.retB
       /\ CallLeOn(tat, StackLevel1) /\ Sequential
    \/ /\ last.op = "Led" /\ last.tat = tat /\ ~last.retB
       /\ \E c \in Level2Latchfs : Latchf(tat, c[1], c[2], StackLevel2)
       /\ Sequential
    \/ /\ (last.op = "Led" /\ ~last.retB) \/ last.op = "Latchf"
       /\ last.tat = tat
       /\ CallLeOn(tat, StackLevel2)
       /\ Sequential
    \/ /\ last.op = "Le" /\ last.tat = tat /\ last.stk = StackLevel2
       /\ Logf(tat, Level2Logf[1], Level2Logf[2])
       /\ Sequential
    \/ /\ last.op = "Logf" /\ last.tat = tat
       /\ Latch(tat, Le(tat), StackLevel1) /\ Sequential
    \/ /\ last.op = "Latch" /\ last.tat = tat
       /\ CallLeOn(tat, StackLevel1) /\ Sequential
    \/ /\ last.op = "Le" /\ last.tat = tat /\ last.stk = StackLevel1
       /\ Log(tat) /\ Sequential
\* A program that calls level_1 on its two records, one call after the other.
NextNested == \E tat \in Tats : Level1(tat)
SpecNested == Init /\ [][NextNested]_vars

\* A program in which each Tattler latches from a place of its own and is
\* given the error extracted from the other with Le().
ExtractStack(tat) == IF tat = "a" THEN CallerStack(1) ELSE CallerStack(2)
ExtractLogfs == {<< <<>>, <<>> >>, << <<"rec ", "%v", ":">>, <<"15">> >>}
NextExtract ==
    \/ \E tat \in Tats, c \in LatchfCalls :
          /\ MissedBelow(tat, MaxMissedSmall)
          /\ Latchf(tat, c[1], c[2], ExtractStack(tat)) /\ Sequential
    \/ \E tat \in Tats, src \in Tats :
          /\ MissedBelow(tat, MaxMissedSmall)
          /\ Latch(tat, Le(src), ExtractStack(tat)) /\ Sequential
    \/ \E tat \in Tats, c \in ExtractLogfs :
          WritesBelow(tat, MaxSinkTwo) /\ Logf(tat, c[1], c[2]) /\ Sequential
    \/ \E tat \in Tats : Reset(tat) /\ Sequential
SpecExtract == Init /\ [][NextExtract]_vars

\* The method of the documentation of Log and Logf, on a record with a
\* mutex and the Tattler tat:
\*     p.mux.Lock(); defer p.mux.Unlock(); defer p.tat.Log(); <body>
\* run by the goroutines of Gors, each once.  The body of goroutine g fails
\* with an error of its own.
MethodLatchf(g) == << <<"goroutine ", "%v", " failed">>, <<ToString(g)>> >>
\* what the steps of a goroutine leave alone when they do not call the Tattler
NoTattlerCall ==
    UNCHANGED <<talep, heap, callFrames, sink, last, offered, detail, logWrites, stale>>

\* deferred calls with a bug: they run in the order of the defer statements
DeferredInOrder(ds) == 1

\* the deferred call that runs next when the function returns: the one
\* deferred last
Deferred(ds) == Len(ds)
\* the deferred calls ds without the i-th
Without(ds, i) == SubSeq(ds, 1, i - 1) \o SubSeq(ds, i + 1, Len(ds))

\* p.mux.Lock(): waits until the mutex is free
Lock(g) ==
    /\ goroutines[g].at = "idle" /\ mux = NoGor
    /\ mux' = g
    /\ goroutines' = [goroutines EXCEPT ![g].at = "locked"]
    /\ NoTattlerCall
\* defer p.mux.Unlock()
DeferUnlock(g) ==
    /\ goroutines[g].at = "locked"
    /\ goroutines' = [goroutines EXCEPT ![g].at = "deferred", ![g].defers = Append(@, "Unlock")]
    /\ UNCHANGED mux /\ NoTattlerCall
\* defer p.tat.Log()
DeferLog(g) ==
    /\ goroutines[g].at = "deferred"
    /\ goroutines' = [goroutines EXCEPT ![g].at = "body", ![g].defers = Append(@, "Log")]
    /\ UNCHANGED mux /\ NoTattlerCall
\* the body: it latches the error of g, on the stack stk
Body(g, tat, stk) ==
    /\ goroutines[g].at = "body"
    /\ Latchf(tat, MethodLatchf(g)[1], MethodLatchf(g)[2], stk)
    /\ goroutines' = [goroutines EXCEPT ![g].at = "return", ![g].stk = stk]
    /\ UNCHANGED <<mux, stale>>
\* the method returns: its deferred calls run, one at a step
Returned(g, i) ==
    [goroutines EXCEPT ![g].defers = Without(@, i),
                       ![g].at = IF Len(goroutines[g].defers) = 1 THEN "done" ELSE "return"]
RunLog(g, tat) ==
    /\ goroutines[g].at = "return" /\ goroutines[g].defers # <<>>
    /\ goroutines[g].defers[Deferred(goroutines[g].defers)] = "Log"
    /\ Log(tat)
    /\ goroutines' = Returned(g, Deferred(goroutines[g].defers))
    /\ UNCHANGED <<mux, stale>>
RunUnlock(g) ==
    /\ goroutines[g].at = "return" /\ goroutines[g].defers # <<>>
    /\ goroutines[g].defers[Deferred(goroutines[g].defers)] = "Unlock"
    /\ mux' = NoGor
    /\ goroutines' = Returned(g, Deferred(goroutines[g].defers))
    /\ NoTattlerCall
\* A program whose goroutines call the method on the one record.
NextLocked ==
    \/ \E g \in Gors : Lock(g)
    \/ \E g \in Gors : DeferUnlock(g)
    \/ \E g \in Gors : DeferLog(g)
    \/ \E g \in Gors, stk \in CallerStacks : Body(g, "a", stk)
    \/ \E g \in Gors : RunLog(g, "a")
    \/ \E g \in Gors : RunUnlock(g)
SpecLocked == Init /\ [][NextLocked]_vars

\* A first Latch(e) by a goroutine while another goroutine calls SetFrames,
\* without synchronisation.  fullLatch reads callFrames twice, in the test
\* callFrames > 0 and in make([]uintptr, callFrames); the reads race with
\* the write of SetFrames, so each gives the latest value or one that was
\* overwritten while the latch was running.
RaceFrameArgs == {0, 1, 3}
Visible == {callFrames} \cup stale
\* a latch is running in some goroutine
Latching == \E g \in Gors : goroutines[g].at \in {"check", "capture", "return"}

\* fullLatch up to tp.latched = e, on a clean Tattler
LatchBegin(g, tat, e, stk) ==
    /\ goroutines[g].at = "idle" /\ ~Latching
    /\ e # NilErr /\ talep[tat] = NilPtr
    /\ LET tp == NewTale
       IN  /\ talep' = [talep EXCEPT ![tat] = tp]
           /\ heap' = [heap EXCEPT ![tp] = [ZeroTale EXCEPT !.latched = e]]
    /\ Offer(tat, e)
    /\ goroutines' = [goroutines EXCEPT ![g] = [Idle EXCEPT !.at = "check", !.stk = stk, !.e = e]]
    /\ stale' = {}
    /\ UNCHANGED <<callFrames, sink, last, mux>>
\* if callFrames > 0
LatchCheck(g) ==
    /\ goroutines[g].at = "check"
    /\ \E n \in Visible :
          goroutines' = [goroutines EXCEPT ![g].at = IF n > 0 THEN "capture" ELSE "return"]
    /\ UNCHANGED <<talep, heap, callFrames, sink, last, offered, detail, logWrites, mux, stale>>
\* pc := make([]uintptr, callFrames), runtime.Callers(b+2, pc) and the loop
\* that appends the frames
LatchCapture(g, tat) ==
    /\ goroutines[g].at = "capture"
    /\ \E n \in Visible :
          heap' = [heap EXCEPT ![talep[tat]].frames =
                      CallersFrames(Callers(1 + 2, n,
                          <<FrameCallers, FrameFullLatch, FrameLatch>> \o goroutines[g].stk))]
    /\ goroutines' = [goroutines EXCEPT ![g].at = "return"]
    /\ UNCHANGED <<talep, callFrames, sink, last, offered, detail, logWrites, mux, stale>>
\* return tat.talep != nil, and Latch returns it
LatchReturn(g, tat) ==
    /\ goroutines[g].at = "return"
    /\ last' = [NoCall EXCEPT !.op = "Latch", !.tat = tat, !.err = goroutines[g].e,
                              !.stk = goroutines[g].stk, !.retB = (talep[tat] # NilPtr)]
    /\ goroutines' = [goroutines EXCEPT ![g] = Idle]
    /\ UNCHANGED <<talep, heap, callFrames, sink, offered, detail, logWrites, mux, stale>>
\* SetFrames(f) in another goroutine; one call at most races with a latch
RaceSetFrames(f) ==
    /\ IF Latching THEN stale = {} ELSE TRUE
    /\ SetFrames(f)
    /\ stale' = IF Latching /\ callFrames' # callFrames THEN {callFrames} ELSE {}
    /\ UNCHANGED <<goroutines, mux>>
\* A program that latches and resets one Tattler in one goroutine and sets
\* the frame count in another.
NextRace ==
    \/ \E e \in CallerErrs, stk \in CallerStacks : LatchBegin(1, "a", e, stk)
    \/ LatchCheck(1)
    \/ LatchCapture(1, "a")
    \/ LatchReturn(1, "a")
    \/ \E f \in RaceFrameArgs : RaceSetFrames(f)
    \/ ~Latching /\ Led("a") /\ Reset("a") /\ Sequential
SpecRace == Init /\ [][NextRace]_vars

\* ------------------------------------------------------------------------
\* Properties.
\* ------------------------------------------------------------------------
\* what a call can change of the Tattlers, the frame count and the log
Effects == <<talep, heap, callFrames, sink, logWrites>>
\* the tale at p belongs to some Tattler
Live(p) == \E t \in Tats : talep[t] = p
LogOps == {"Log", "Logf"}

\* C1: first error wins.  After any sequence of offers to a Tattler that
\* started clean (or was reset), Le() is the first non-nil error that was
\* offered, and Led() is false exactly when no non-nil error was offered.
C1_FirstErrorWins ==
    \A t \in Tats : /\ Le(t) = offered[t]
                    /\ Led(t) <=> offered[t] # NilErr
\* a different error has been offered after the first, and was not latched
C1_Witness ==
    /\ last.op = "Latch" /\ last.tat = "a" /\ last.err # NilErr
    /\ Led("a") /\ Le("a") # last.err /\ Le("a") = offered["a"]

\* C2: Latch(err) returns true exactly when the Tattler is latched after
\* the call, so Latch(nil) on a latched Tattler returns true.
C2_LatchReturnsLed ==
    last.op = "Latch" => (last.retB <=> Led(last.tat))

\* C3: a nil offer never changes state.  Latch(nil) leaves the Tattler
\* clean or latched as it was, with the same latched error, frames, logged
\* flag and missed count, and writes nothing to the log.
C3_NilOfferChangesNothing ==
    [][(last'.op = "Latch" /\ last'.err = NilErr) => UNCHANGED Effects]_vars
\* Latch(nil) has been called on a Tattler that had latched and missed errors
C3_Witness ==
    /\ last.op = "Latch" /\ last.err = NilErr
    /\ Led(last.tat) /\ heap[talep[last.tat]].missed > 0

\* C4: self-latch is a no-op.  On a latched Tattler h, Latch(h.Le()) leaves
\* missed and every other field of the tale unchanged, whatever came before.
C4_SelfLatchNoOp ==
    [][\A t \in Tats :
          (last'.op = "Latch" /\ last'.tat = t /\ Led(t) /\ last'.err = Le(t))
              => UNCHANGED Effects]_vars
\* Latch(h.Le()) has been called on a Tattler that had already missed an error
C4_Witness ==
    /\ last.op = "Latch" /\ last.err # NilErr /\ Led(last.tat)
    /\ last.err = Le(last.tat) /\ heap[talep[last.tat]].missed = 1

\* C5: the missed count is exact.  The missed count of a tale is the
\* number of non-nil errors, different from the latched one, offered through
\* Latch or Latchf since the latch; the latching offer is not counted.
C5_MissedExact ==
    \A p \in Addrs : heap[p].missed = detail[p].offers
\* two different errors were offered after the latch, the last by Latchf
C5_Witness ==
    /\ last.op = "Latchf" /\ Led(last.tat)
    /\ heap[talep[last.tat]].missed = 2 /\ detail[talep[last.tat]].offers = 2

\* C6: once a Tattler is latched, no call but Reset on it makes it clean
\* again or changes what Le() returns.
C6_LatchedUntilReset ==
    [][\A t \in Tats :
          (Led(t) /\ ~(last'.op = "Reset" /\ last'.tat = t))
              => (Led(t)' /\ Le(t)' = Le(t))]_vars
\* Import has been called on a latched Tattler, from a Tattler latched on
\* another error
C6_Witness ==
    /\ last.op = "Import" /\ last.tat # last.other
    /\ Led(last.tat) /\ Led(last.other) /\ Le(last.tat) # Le(last.other)

\* C7: Latchf never overwrites and returns the latched error.  On a clean
\* Tattler it latches the error it made and returns it; on a latched one it
\* returns the error latched before and only missed grows by one.  The
\* result is never nil and the Tattler is latched afterwards.
C7_LatchfReturnsLatched ==
    [][\A t \in Tats :
          (last'.op = "Latchf" /\ last'.tat = t)
              => /\ Led(t)'
                 /\ last'.retE # NilErr
                 /\ last'.retE = Le(t)'
                 /\ IF Led(t)
                    THEN /\ last'.retE = Le(t)
                         /\ talep' = talep
                         /\ heap' = [heap EXCEPT ![talep[t]].missed = @ + 1]
                    ELSE /\ last'.retE = last'.err
                         /\ last'.err.msg = Sprintf(last'.s, last'.v)
                         /\ heap'[talep'[t]].missed = 0]_vars
\* Latchf on a latched Tattler returned the earlier error, not the new one
C7_Witness ==
    /\ last.op = "Latchf" /\ last.retE # last.err
    /\ last.retE = Le(last.tat) /\ heap[talep[last.tat]].missed > 0

C9_LoggedMonotone ==
    [][/\ \A p \in Addrs :
            /\ (~Live(p) /\ Live(p)' /\ last'.op \in {"Latch", "Latchf"})
                   => ~heap'[p].logged
            /\ (Live(p) /\ Live(p)' /\ ~heap[p].logged /\ heap'[p].logged)
                   => /\ last'.op \in LogOps /\ last'.full
                      /\ talep[last'.tat] = p
                      /\ logWrites'[last'.tat] = logWrites[last'.tat] + 1
            /\ (Live(p) /\ Live(p)' /\ heap[p].logged) => heap'[p].logged
       /\ \A t \in Tats :
            (last'.op \in LogOps /\ last'.tat = t /\ Led(t) /\ heap[talep[t]].logged)
                => UNCHANGED Effects]_vars
\* Log has been called on a Tattler whose tale is logged, after a later miss
C9_Witness ==
    /\ last.op = "Log" /\ ~last.full /\ Led(last.tat)
    /\ heap[talep[last.tat]].logged /\ heap[talep[last.tat]].missed > 0

\* C10: Log and Logf on a clean Tattler only check: the prefix is not
\* formatted, String() is not rendered, nothing is written, and the Tattler
\* stays clean.
C10_LogOnCleanOnlyChecks ==
    [][\A t \in Tats :
          (last'.op \in LogOps /\ last'.tat = t /\ ~Led(t))
              => (~last'.full /\ ~Led(t)' /\ UNCHANGED Effects)]_vars
\* Logf with a format to expand has been called on a clean Tattler
C10_Witness ==
    /\ last.op = "Logf" /\ last.s # <<>> /\ ~last.full /\ ~Led(last.tat)

\* C11: Logf on a latched Tattler whose logged flag is false makes exactly
\* one write to the log, the formatted prefix followed by what String()
\* returns at that moment (error, frames, missed count), and sets logged.
C11_LogfWritesPrefixAndString ==
    [][\A t \in Tats :
          (last'.op = "Logf" /\ last'.tat = t /\ Led(t) /\ ~heap[talep[t]].logged)
              => /\ last'.full
                 /\ sink' = [prefix |-> Sprintf(last'.s, last'.v), body |-> String(t)]
                 /\ logWrites' = [logWrites EXCEPT ![t] = @ + 1]
                 /\ talep' = talep
                 /\ heap' = [heap EXCEPT ![talep[t]].logged = TRUE]
                 /\ String(t)' = String(t)]_vars
\* Logf with a format to expand has written a tale that has frames and
\* missed errors
C11_Witness ==
    /\ last.op = "Logf" /\ last.full /\ last.s # <<>>
    /\ sink.prefix = <<"rec ", "15", ":">>
    /\ sink.body = String(last.tat) /\ Len(sink.body) = 4
    /\ heap[talep[last.tat]].logged /\ heap[talep[last.tat]].missed = 2

\* what Logf(s, v) on t makes of the tales, the log and the writes of t
AfterLogf(t, s, v) ==
    IF Led(t) /\ ~heap[talep[t]].logged
    THEN [heap |-> [heap EXCEPT ![talep[t]].logged = TRUE],
          sink |-> [prefix |-> Sprintf(s, v), body |-> String(t)],
          writes |-> logWrites[t] + 1]
    ELSE [heap |-> heap, sink |-> sink, writes |-> logWrites[t]]

\* C12: Log() is Logf with an empty prefix.  From every state, a Log() and
\* a Logf("") leave the same Tattler state and the same log: nothing
\* written, or one write that is exactly the String() rendering.
C12_LogIsLogfEmpty ==
    [][\A t \in Tats :
          (last'.op \in LogOps /\ last'.tat = t
               /\ (last'.op = "Logf" => (last'.s = <<>> /\ last'.v = <<>>)))
              => /\ [heap |-> heap', sink |-> sink', writes |-> logWrites'[t]]
                        = AfterLogf(t, <<>>, <<>>)
                 /\ UNCHANGED <<talep, callFrames>>
                 /\ \/ UNCHANGED <<sink, logWrites>>
                    \/ sink' = [prefix |-> <<>>, body |-> String(t)]]_vars
\* Log() has written the String() of a latched Tattler, and nothing else
C12_Witness ==
    /\ last.op = "Log" /\ last.full /\ Led(last.tat)
    /\ sink.prefix = <<>> /\ sink.body = String(last.tat) /\ sink.body # <<>>

\* the tale of t, a zero tale when t is clean
TaleOf(t) == IF talep[t] = NilPtr THEN ZeroTale ELSE heap[talep[t]]

\* C13: Import is a one-way merge.  (1) Receiver clean and other latched:
\* the receiver becomes latched and its String() is the other's.  (2)
\* Receiver latched: it is unchanged whatever the other holds.  (3) Other
\* clean: the receiver is unchanged.  The other is never changed, and the
\* result is Led() of the receiver after the call.
C13_ImportOneWayMerge ==
    [][\A t, o \in Tats :
          (last'.op = "Import" /\ last'.tat = t /\ last'.other = o)
              => /\ last'.retB = Led(t)'
                 /\ Led(o)' = Led(o) /\ TaleOf(o)' = TaleOf(o) /\ String(o)' = String(o)
                 /\ t # o => talep'[o] = talep[o]
                 /\ IF ~Led(t) /\ Led(o)
                    THEN /\ Led(t)' /\ Le(t)' = Le(o)
                         /\ String(t)' = String(o) /\ String(t)' # <<>>
                    ELSE /\ talep'[t] = talep[t]
                         /\ TaleOf(t)' = TaleOf(t) /\ String(t)' = String(t)
                 /\ UNCHANGED <<callFrames, sink, logWrites>>]_vars
\* Import has made a Tattler latched with the String() of the other, which
\* had missed an error and was logged: the receiver never wrote its flag itself
C13_Witness ==
    /\ last.op = "Import" /\ last.tat # last.other /\ last.retB
    /\ Led(last.tat) /\ Led(last.other) /\ talep[last.tat] # talep[last.other]
    /\ String(last.tat) = String(last.other) /\ Len(String(last.tat)) = 3
    /\ heap[talep[last.tat]].logged /\ logWrites[last.tat] = 0

\* C14: Import yields an independent copy.  After b.Import(a) has taken
\* effect the two Tattlers have tales of their own: a call on one of them
\* (an offer, Log/Logf, Reset, Import) leaves the other's latched error,
\* frames, missed, logged and String() unchanged.
C14_ImportCopyIndependent ==
    [][\A t, o \in Tats :
          (last'.tat = t /\ o # t)
              => /\ talep'[o] = talep[o] /\ TaleOf(o)' = TaleOf(o)
                 /\ String(o)' = String(o)
                 /\ Led(t)' => talep'[t] # talep'[o]]_vars
\* b imported a's logged tale, then a missed an error: b's copy kept its
\* missed count
C14_Witness ==
    /\ last.op = "Latchf" /\ last.tat = "a" /\ Led("a") /\ Led("b")
    /\ Le("a") = Le("b") /\ heap[talep["b"]].logged /\ logWrites["b"] = 0
    /\ heap[talep["a"]].missed = 1 /\ heap[talep["b"]].missed = 0
    /\ String("a") # String("b")

\* C15: Import copies the whole tale, logged flag and missed count
\* included.  A clean Tattler that imports from a latched one whose logged
\* flag is true is latched with logged true and the same missed count, and
\* Log/Logf on it write nothing while it keeps that tale (until Reset).
C15_ImportCopiesLoggedAndMissed ==
    [][\A t \in Tats :
          /\ \A o \in Tats :
                (last'.op = "Import" /\ last'.tat = t /\ last'.other = o
                     /\ ~Led(t) /\ Led(o))
                    => /\ Led(t)' /\ TaleOf(t)' = TaleOf(o)
                       /\ heap'[talep'[t]].logged = heap[talep[o]].logged
                       /\ heap'[talep'[t]].missed = heap[talep[o]].missed
          /\ (last'.op \in LogOps /\ last'.tat = t /\ Led(t) /\ heap[talep[t]].logged)
                => (~last'.full /\ UNCHANGED <<sink, logWrites, heap, talep>>)]_vars
\* Logf has been called on a Tattler that imported a logged tale with a
\* missed error: it has written nothing, the only write is the other's
C15_Witness ==
    /\ last.op = "Logf" /\ last.tat = "b" /\ ~last.full /\ Led("b")
    /\ heap[talep["b"]].logged /\ heap[talep["b"]].missed = 1
    /\ logWrites["b"] = 0 /\ logWrites["a"] = 1

\* C16: Import taints a container without another log message.  Once
\* container.Import(inner) has taken effect and only Log/Logf are called on
\* the two Tattlers, the log gets at most one write for the latched error
\* from the two together, whether or not inner was logged when imported: a
\* Log/Logf on one of the pair writes only if the other's tale is not logged.
C16_ImportNoSecondWrite ==
    [][\A t, o \in Tats :
          (last'.op \in LogOps /\ last'.tat = t /\ last'.full
               /\ o # t /\ Led(t) /\ Led(o)
               /\ detail[talep[t]].paired /\ detail[talep[o]].paired)
              => ~heap[talep[o]].logged]_vars

\* the calls that change the state of their receiver
Changing == {"Latch", "Latchf", "Log", "Logf", "Reset"}

\* C17: a value copy is independent.  After a latched Tattler is copied
\* by assignment, the copy and the original do not share a tale: an offer,
\* a Log/Logf or a Reset on one of them does not change the other's missed
\* count, logged flag, Le() or String().
C17_ValueCopyIndependent ==
    [][\A t, o \in Tats :
          (last'.op \in Changing /\ last'.tat = t /\ o # t)
              => /\ TaleOf(o)' = TaleOf(o)
                 /\ Le(o)' = Le(o) /\ String(o)' = String(o)]_vars

Offers == {"Latch", "Latchf"}

\* C18: Reset from any state leaves the Tattler clean (Ok() true, Led()
\* false, Le() nil, String() empty), and a clean Tattler, reset or never
\* used, behaves the same: the next non-nil offer latches that error with
\* missed = 0, logged = false and the frames of that call.
C18_ResetGivesFreshTattler ==
    [][\A t \in Tats :
          /\ (last'.op = "Reset" /\ last'.tat = t)
                => /\ Ok(t)' /\ ~Led(t)' /\ Le(t)' = NilErr /\ String(t)' = <<>>
                   /\ UNCHANGED <<callFrames, sink, logWrites>>
          /\ (last'.op \in Offers /\ last'.tat = t /\ last'.err # NilErr /\ Ok(t))
                => /\ Led(t)' /\ Le(t)' = last'.err
                   /\ heap'[talep'[t]].missed = 0 /\ ~heap'[talep'[t]].logged
                   /\ \E stk \in CallerStacks :
                         heap'[talep'[t]].frames =
                             IF callFrames = 0 THEN <<>>
                             ELSE SubSeq(stk, 1, Min(callFrames, Len(stk)))]_vars
\* a Tattler that had latched and written its tale has been reset and has
\* latched again: the new tale is not logged and has no frames, SetFrames(0)
\* having been called in between, where the written one had two
C18_Witness ==
    /\ last.op = "Latchf" /\ last.tat = "a" /\ Led("a") /\ Le("a") = last.err
    /\ logWrites["a"] = 1 /\ Len(sink.body) = 4
    /\ ~heap[talep["a"]].logged /\ heap[talep["a"]].missed = 0
    /\ heap[talep["a"]].frames = <<>> /\ detail[talep["a"]].writes = 0

\* C19: offers to a latched Tattler change nothing but missed.  Every
\* Latch/Latchf on a latched Tattler leaves the latched error, the frames
\* and the logged flag unchanged, and the frames recorded at the latch are
\* never computed again, not even after a SetFrames with another count.
C19_OffersChangeOnlyMissed ==
    [][\A t \in Tats :
          /\ (last'.op \in Offers /\ last'.tat = t /\ Led(t))
                => /\ talep' = talep
                   /\ heap' = [heap EXCEPT ![talep[t]].missed = heap'[talep[t]].missed]
                   /\ heap'[talep[t]].missed \in {heap[talep[t]].missed,
                                                  heap[talep[t]].missed + 1}
                   /\ UNCHANGED <<callFrames, sink, logWrites>>
          /\ (Led(t) /\ ~(last'.op = "Reset" /\ last'.tat = t))
                => /\ Led(t)'
                   /\ heap'[talep'[t]].frames = heap[talep[t]].frames]_vars
\* a Tattler latched with two frames has missed an error after SetFrames(0):
\* it still has its two frames
C19_Witness ==
    /\ last.op = "Latchf" /\ last.tat = "a" /\ Led("a") /\ Le("a") # last.err
    /\ callFrames = 0 /\ Len(heap[talep["a"]].frames) = 2
    /\ heap[talep["a"]].missed = 1

\* C20: the three queries agree in every reachable state.  Ok() is the
\* negation of Led(), Led() is true exactly when the Tattler has a tale, and
\* Le() is non-nil exactly when Led() is true: no tale holds a nil latched
\* error, whether Latch, Latchf or Import made it.
C20_QueriesAgree ==
    /\ \A t \in Tats : /\ Ok(t) <=> ~Led(t)
                       /\ Led(t) <=> talep[t] # NilPtr
                       /\ Le(t) # NilErr <=> Led(t)
    /\ \A p \in Addrs : Live(p) => heap[p].latched # NilErr
    /\ last.op = "Ok" => (last.retB <=> ~Led(last.tat))
    /\ last.op = "Led" => (last.retB <=> talep[last.tat] # NilPtr)
    /\ last.op = "Le" => (last.retE # NilErr <=> Led(last.tat))
\* Le() has returned the error of a tale that Import made
C20_Witness ==
    /\ last.op = "Le" /\ last.retE # NilErr /\ last.retE = Le(last.tat)
    /\ Led(last.tat) /\ ~Ok(last.tat)
    /\ heap[talep[last.tat]].logged /\ logWrites[last.tat] = 0

Reads == {"Le", "Led", "Ok", "String"}

\* C21: Le, Led, Ok and String are pure reads.  A call of one of them
\* leaves the tales (latched, frames, logged, missed), the frame count and
\* the log unchanged, and a second call of the same one right after the
\* first returns the same value.
C21_ReadsArePure ==
    [][last'.op \in Reads
          => /\ UNCHANGED Effects
             /\ (last.op = last'.op /\ last.tat = last'.tat)
                   => /\ last'.retE = last.retE /\ last'.retB = last.retB
                      /\ last'.retS = last.retS]_vars
\* String() has rendered a latched, unlogged tale with frames and a missed
\* error, and the tale is still unlogged
C21_Witness ==
    /\ last.op = "String" /\ Led(last.tat) /\ last.retS = String(last.tat)
    /\ Len(last.retS) = 4 /\ ~heap[talep[last.tat]].logged
    /\ heap[talep[last.tat]].missed = 1 /\ sink = NoWrite

\* C22: the frame count is 3 before any SetFrames call and is in [0,100]
\* in every reachable state: SetFrames(f) stores f when f <= 100 and 100
\* for every larger request.
C22_FrameCountInRange ==
    /\ callFrames \in 0..100
    /\ callFrames \in {3} \cup {IF f <= 100 THEN f ELSE 100 : f \in FrameArgs}
    /\ last.op = "none" => callFrames = 3
    /\ last.op = "SetFrames"
          => callFrames = (IF last.n <= 100 THEN last.n ELSE 100)
\* SetFrames has been called with a request above 100 and the count is 100
C22_Witness ==
    /\ last.op = "SetFrames" /\ last.n > 100 /\ callFrames = 100

OwnFunctions == {FrameCallers.function, FrameFullLatch.function,
                 FrameLatch.function, FrameLatchf.function}

\* C24: the first captured frame is the call site of the caller of Latch
\* or Latchf, for both entry points: the frames of Latch/Latchf, fullLatch
\* and runtime.Callers are skipped, and the other frames follow in stack
\* order from that call site outward.
C24_FirstFrameIsCallSite ==
    [][\A t \in Tats :
          (last'.op \in Offers /\ last'.tat = t /\ last'.err # NilErr
               /\ Ok(t) /\ callFrames > 0)
              => LET fr == heap'[talep'[t]].frames
                 IN  /\ Len(fr) >= 1 /\ Len(fr) <= Len(last'.stk)
                     /\ fr[1] = last'.stk[1]
                     /\ \A i \in 1..Len(fr) : /\ fr[i] = last'.stk[i]
                                              /\ fr[i].function \notin OwnFunctions
                     /\ String(t)'[2].kind = " Latched at:"
                     /\ String(t)'[2].line = last'.stk[1].line]_vars
\* Latchf has latched two levels below the top of the program with the
\* frame count 1: the one frame kept is the caller of Latchf
C24_Witness ==
    /\ last.op = "Latchf" /\ last.retE = last.err /\ Len(last.stk) = 2
    /\ heap[talep[last.tat]].frames = <<AppFrame(2)>>
    /\ heap[talep[last.tat]].missed = 0

\* C25: frame count bound.  A first latch made with the frame count K on
\* a stack with D caller frames leaves exactly min(K, D) frames in the tale,
\* so no tale has more frames than the count in force when it latched, nor
\* more than 100: K = 1 gives one frame, the default at most three.
C25_FramesAreMinOfCountAndDepth ==
    [][/\ \A t \in Tats :
            (last'.op \in Offers /\ last'.tat = t /\ last'.err # NilErr /\ Ok(t))
                => LET n == Len(heap'[talep'[t]].frames)
                   IN  /\ n = Min(callFrames, Len(last'.stk))
                       /\ n <= callFrames /\ n <= 100
                       /\ callFrames = 1 => n = 1
                       /\ callFrames = 3 => n <= 3
       /\ \A p \in Addrs : /\ Len(heap'[p].frames) <= 100
                           /\ Live(p) /\ Live(p)' /\ talep' = talep
                                 => Len(heap'[p].frames) = Len(heap[p].frames)]_vars
\* Latch has latched a caller's error two levels below the top of the
\* program with the frame count 1: one frame of the two is kept
C25_Witness ==
    /\ last.op = "Latch" /\ last.err \in CallerErrs /\ Le(last.tat) = last.err
    /\ Len(last.stk) = 2 /\ callFrames = 1
    /\ Len(heap[talep[last.tat]].frames) = 1 /\ heap[talep[last.tat]].missed = 0
    /\ heap[talep[last.tat]].frames[1] = last.stk[1] /\ Len(String(last.tat)) = 2

\* C26: String rendering.  On a clean Tattler String() is empty; on a
\* latched one it is the line of the error's message, then one
\* " Latched at:" line for the first frame, then one " Called From:" line
\* for each other frame in captured order, then a last " N post-latch
\* errors" line exactly when missed is not 0, with N = missed.
C26_StringRendering ==
    /\ \A t \in Tats :
          IF Ok(t)
          THEN String(t) = <<>>
          ELSE LET tl == heap[talep[t]]
                   S == String(t)
                   nf == Len(tl.frames)
               IN  /\ Len(S) = 1 + nf + (IF tl.missed # 0 THEN 1 ELSE 0)
                   /\ S[1].kind = "error" /\ S[1].text = tl.latched.msg
                   /\ \A i \in 1..nf :
                         /\ S[i + 1].kind = (IF i = 1 THEN " Latched at:" ELSE " Called From:")
                         /\ S[i + 1].file = tl.frames[i].file[Len(tl.frames[i].file)]
                         /\ S[i + 1].line = tl.frames[i].line
                         /\ S[i + 1].function = tl.frames[i].function
                   /\ tl.missed # 0 => /\ S[Len(S)].kind = " post-latch errors"
                                       /\ S[Len(S)].n = tl.missed
                   /\ \A i \in 1..Len(S) :
                         S[i].kind = " post-latch errors" => (i = Len(S) /\ tl.missed # 0)
    /\ last.op = "String" => last.retS = String(last.tat)
\* String() has returned four lines: the message, the latch site, its
\* caller, and two missed errors
C26_Witness ==
    /\ last.op = "String" /\ Len(last.retS) = 4
    /\ last.retS[1].text = <<"bad ", "x">>
    /\ last.retS[2].kind = " Latched at:" /\ last.retS[2].file = "rec.go"
    /\ last.retS[3].kind = " Called From:" /\ last.retS[3].line = 1
    /\ last.retS[4].kind = " post-latch errors" /\ last.retS[4].n = 2

\* C27: totality.  Every operation can be called in every reachable state
\* with every input, a nil error, an error whose type cannot be compared
\* and a nil *Tattler given to Import included, and completes without
\* signalling a failure, leaving the Tattler clean or latched.
C27_NoCallFails ==
    /\ ~last.panic
    /\ \A t \in Tats : Ok(t) \/ Led(t)

\* C28: SetFrames returns the frame count that was in force before the
\* call, so that SetFrames(SetFrames(x)) restores the setting (from the
\* default, the first SetFrames returns 3), and it stops a request above
\* 100 at 100.
C28_SetFramesReturnsPrevious ==
    [][last'.op = "SetFrames"
          => /\ last'.retN = callFrames
             /\ callFrames' = (IF last'.n > 100 THEN 100 ELSE last'.n)]_vars

\* C29: the standard method template (defer Logf; return Le() at once if
\* Led(); otherwise Latchf on failure).  Over any sequence of calls of such a
\* method on a record the log gets exactly one write, made when the call
\* that latched the error returns; every later call returns the same
\* latched error, writes nothing and leaves missed at 0; and if no call
\* fails the log gets nothing.
C29_TemplateLogsOnce ==
    [][\A t \in Tats :
          /\ logWrites'[t] <= 1
          /\ ~Led(t)' => logWrites'[t] = 0
          /\ Led(t)' => heap'[talep'[t]].missed = 0
          /\ (last'.op = "Logf" /\ last'.tat = t)
                => /\ last'.full <=> last.op = "Latchf"
                   /\ logWrites'[t] = (IF Led(t) THEN 1 ELSE 0)
                   /\ last'.full => /\ sink'.prefix = <<"Record id ", "15">>
                                    /\ sink'.body = String(t)
          /\ (last'.op \in {"Le", "Latchf"} /\ last'.tat = t)
                => /\ last'.retE = Le(t)' /\ last'.retE = offered'[t]
                   /\ Led(t) => (last'.retE = Le(t) /\ UNCHANGED Effects)]_vars
\* a later call of Check on a record whose Tattler was latched and logged
\* by an earlier call has returned: nothing more was written
C29_Witness ==
    /\ last.op = "Logf" /\ ~last.full /\ Led(last.tat)
    /\ heap[talep[last.tat]].logged /\ heap[talep[last.tat]].missed = 0
    /\ logWrites[last.tat] = 1 /\ Len(heap[talep[last.tat]].frames) = 2

\* C30: nested deferred logs on one Tattler.  When an outer function
\* defers Log and calls an inner function that defers Logf with a prefix and
\* latches an error, the inner Logf runs first and makes the one write, with
\* the inner prefix; the outer Log then writes nothing; and the outer Latch
\* of the error the inner function returned is not counted as missed.
C30_NestedLogsOnce ==
    [][\A t \in Tats :
          /\ logWrites'[t] <= 1
          /\ Led(t)' => heap'[talep'[t]].missed = 0
          /\ (last'.op = "Logf" /\ last'.tat = t)
                => /\ last'.full <=> (Led(t) /\ ~heap[talep[t]].logged)
                   /\ Led(t) => /\ logWrites'[t] = 1 /\ heap'[talep[t]].logged
                                /\ sink'.prefix = <<"tr record ", "15", ":">>
                                /\ sink'.body = String(t)
          /\ (last'.op = "Log" /\ last'.tat = t)
                => (~last'.full /\ UNCHANGED Effects /\ (Led(t) => logWrites[t] = 1))
          /\ (last'.op = "Latch" /\ last'.tat = t)
                => (UNCHANGED Effects /\ (last'.retB <=> last'.err # NilErr))]_vars
\* level_1 has returned after level_2 latched: its Log wrote nothing, the
\* one write has the prefix of level_2 and the three frames of the latch
C30_Witness ==
    /\ last.op = "Log" /\ ~last.full /\ Led(last.tat)
    /\ logWrites[last.tat] = 1 /\ heap[talep[last.tat]].missed = 0
    /\ sink.prefix = <<"tr record ", "15", ":">> /\ sink.body = String(last.tat)
    /\ Len(sink.body) = 4 /\ sink.body[1].text = <<"name size ", "8192", " exceeds max 1000">>
    /\ sink.body[2].line = 3 /\ sink.body[3].line = 2 /\ sink.body[4].line = 1

\* C34: two errors are the same when they are the same error value, not
\* when their messages are equal.  Every Latchf on a latched Tattler adds
\* exactly one to missed, also when its format and arguments give the
\* message of the latched error, while Latch of the value Le() returns
\* adds nothing.
C34_SameIsIdentity ==
    [][\A t \in Tats :
          /\ (last'.op = "Latchf" /\ last'.tat = t /\ Led(t))
                => /\ last'.err.msg = Sprintf(last'.s, last'.v)
                   /\ last'.err # Le(t)
                   /\ heap' = [heap EXCEPT ![talep[t]].missed = @ + 1]
          /\ (last'.op = "Latch" /\ last'.tat = t /\ Led(t) /\ last'.err = Le(t))
                => heap' = heap]_vars
\* Latchf has made an error with the message of the latched error, and it
\* was counted as missed
C34_Witness ==
    /\ last.op = "Latchf" /\ Led(last.tat)
    /\ last.err # Le(last.tat) /\ last.err.msg = Le(last.tat).msg
    /\ heap[talep[last.tat]].missed = 1 /\ detail[talep[last.tat]].offers = 1

\* C33: each Tattler logs on its own.  When the error of a latched Tattler
\* is taken with Le() and latched into another, clean Tattler, that one gets
\* a tale of its own with logged false, missed 0 and the frames of its own
\* latch, whatever the logged flag of the first is, and the first keeps its
\* tale as it was; each of the two tales is written to the log at most once.
C33_EachTattlerLogsItsOwn ==
    [][/\ \A t \in Tats, u \in Tats :
            (/\ last'.op = "Latch" /\ last'.tat = t /\ t # u
             /\ ~Led(t) /\ Led(u) /\ last'.err = Le(u))
               => /\ Led(t)' /\ talep'[t] # talep'[u] /\ talep'[u] = talep[u]
                  /\ heap'[talep'[t]] =
                        [latched |-> Le(u),
                         frames |-> SubSeq(last'.stk, 1, Min(callFrames, Len(last'.stk))),
                         logged |-> FALSE, missed |-> 0]
                  /\ last'.stk = ExtractStack(t)
                  /\ heap'[talep[u]] = heap[talep[u]]
                  /\ detail'[talep'[t]].writes = 0
       /\ \A p \in Addrs : detail'[p].writes <= 1
       /\ \A t \in Tats :
            (last'.op = "Logf" /\ last'.tat = t /\ Led(t))
               => (last'.full <=> ~heap[talep[t]].logged)]_vars
\* b was given the error a had latched and logged, and has logged it again
\* with the frames of its own latch
C33_Witness ==
    /\ last.op = "Logf" /\ last.tat = "b" /\ last.full
    /\ Led("a") /\ Led("b") /\ Le("a") = Le("b") /\ talep["a"] # talep["b"]
    /\ detail[talep["a"]].writes = 1 /\ detail[talep["b"]].writes = 1
    /\ heap[talep["a"]].frames = CallerStack(1) /\ heap[talep["b"]].frames = CallerStack(2)
    /\ sink.body[1].text = Le("a").msg /\ Len(sink.body) = 3

\* C31: with the record's mutex held around each method, the guarantees
\* hold for every interleaving of the goroutines.  Each method (Lock; defer
\* Unlock; defer Log; a body that latches) calls the Tattler only while its
\* goroutine holds the mutex, the deferred Log running before the Unlock;
\* Le() becomes and stays the error of the goroutine that latched first;
\* the different error of every other goroutine is counted in missed; and
\* when all have returned the log has had exactly one write for the tale.
C31_LockedMethods ==
    [][/\ \A g \in Gors :
            goroutines'[g] # goroutines[g]
               => /\ (\/ goroutines[g].at = "body"
                      \/ goroutines[g].at = "return" /\ mux' = mux)
                        => (mux = g /\ mux' = g /\ last'.tat = "a")
                  /\ (goroutines[g].at = "return" /\ mux' = mux)
                        => /\ last'.op = "Log"
                           /\ last'.full <=> ~heap[talep["a"]].logged
                           /\ "Unlock" \in {goroutines[g].defers[i] :
                                               i \in 1..Len(goroutines[g].defers)}
                  /\ goroutines[g].at = "body"
                        => /\ last'.op = "Latchf"
                           /\ last'.err.msg = Sprintf(MethodLatchf(g)[1], MethodLatchf(g)[2])
                           /\ IF Led("a")
                              THEN /\ last'.err # Le("a")
                                   /\ heap'[talep["a"]].missed = heap[talep["a"]].missed + 1
                              ELSE /\ Le("a")' = last'.err
                                   /\ heap'[talep'["a"]].missed = 0
       /\ Led("a") => (Led("a")' /\ Le("a")' = Le("a"))
       /\ logWrites'["a"] <= 1
       /\ (\A g \in Gors : goroutines'[g].at = "done")
             => /\ Led("a")' /\ Le("a")' = offered'["a"]
                /\ heap'[talep'["a"]].missed = NumGors - 1
                /\ logWrites'["a"] = 1 /\ heap'[talep'["a"]].logged
                /\ sink'.body[1].text = Le("a")'.msg]_vars
\* all goroutines have returned; goroutine 2 latched first, the errors of
\* the others were counted, and the log has had one write
C31_Witness ==
    /\ \A g \in Gors : goroutines[g].at = "done" /\ goroutines[g].defers = <<>>
    /\ mux = NoGor
    /\ Led("a") /\ Le("a").msg = <<"goroutine ", "2", " failed">>
    /\ heap[talep["a"]].missed = NumGors - 1 /\ logWrites["a"] = 1
    /\ sink.body[1].text = <<"goroutine ", "2", " failed">>

\* what fullLatch captures on the stack stk of the caller of Latch when the
\* frame count is n at both reads
FramesUnder(n, stk) ==
    IF n > 0
    THEN CallersFrames(Callers(1 + 2, n, <<FrameCallers, FrameFullLatch, FrameLatch>> \o stk))
    ELSE <<>>
\* the greatest of the counts a racing latch can have read
MaxVisible == CHOOSE n \in Visible : \A m \in Visible : m <= n

\* C32: a first latch that races with a SetFrames call changing the count
\* from old to new ends with the Tattler latched on the offered error, and
\* its frames are what a latch under the old count or under the new count
\* would have captured: never more than max(old, new) frames, and no frame
\* that was not taken from the stack.
C32_RacingLatchOldOrNew ==
    \A g \in Gors :
        goroutines[g].at = "return"
           => /\ Led("a") /\ Le("a") = goroutines[g].e
              /\ heap[talep["a"]].frames \in {FramesUnder(n, goroutines[g].stk) : n \in Visible}
              /\ Len(heap[talep["a"]].frames) <= MaxVisible
              /\ \A i \in 1..Len(heap[talep["a"]].frames) :
                    \E j \in 1..Len(goroutines[g].stk) :
                        heap[talep["a"]].frames[i] = goroutines[g].stk[j]

====
